---- MODULE Spec2Model ----
(***************************************************************************)
(* Model of the HTML guitar tuner (script.js, sw.js).                      *)
(*                                                                         *)
(* Numbers.  Samples are Float32 values in [-1,1]; the model keeps them as *)
(* integers in units of 1/Scale, so a sample s stands for s/Scale.  Every  *)
(* other number of the page is a JavaScript number: a double with its      *)
(* sign, its 53-bit mantissa and its exponent, a signed zero, a signed     *)
(* infinity or NaN, and the arithmetic rounds as the page's does.          *)
(***************************************************************************)
EXTENDS Integers, Sequences, FiniteSets

VARIABLES
  tunerState,   \* the tunerState object of script.js
  button,       \* updateUIState: "stopped", "loading" (disabled) or "running"
  rafPending,   \* ids of the requested animation frames not yet run
  pending,      \* suspended handlers: how many wait at each await
  fed,          \* the estimates updatePitch has seen since pitchBuffer = []
  pitch,        \* the smoothed pitch of the latest of these updatePitch calls
  display,      \* the note and frequency fields: "idle" ('-', '- Hz'),
                \* "reading" or "marker" ('-', '0 Hz')
  ended,        \* how the click handler that ran last came to its end:
                \* "started", "stopped", "failed", or "none" while it runs
  compatible,   \* whether checkDeviceCompatibility passes in this browser
  unloaded,     \* the page has been unloaded
  buf,          \* autoCorrelate: the frame under analysis
  sampleRate,   \* autoCorrelate: its sampleRate argument
  acPc,         \* "ready" before the call, "done" after it returned
  acOut,        \* what the call returned and how it got there
  noteIn,       \* the note number handed to frequencyFromNoteNumber
  centsIn,      \* the cents value whose direction label is computed
  notePc,       \* "note" or "cents" before the computation, "done" after it
  noteOut,      \* what the note functions and the labelling returned
  cacheStorage, \* sw.js: the caches of the origin, in creation order
  workerState,  \* sw.js: the life-cycle state of each worker version
  inFlight,     \* sw.js: the fetch handlers that have not finished
  answered      \* sw.js: the fetch handler that responded last

acVars == <<buf, sampleRate, acPc, acOut>>
appVars == <<tunerState, button, rafPending, pending, fed, pitch, display,
             ended, compatible, unloaded>>
noteVars == <<noteIn, centsIn, notePc, noteOut>>
swVars == <<cacheStorage, workerState, inFlight, answered>>
vars == <<tunerState, button, rafPending, pending, fed, pitch, display,
          ended, compatible, unloaded, buf, sampleRate, acPc, acOut,
          noteIn, centsIn, notePc, noteOut,
          cacheStorage, workerState, inFlight, answered>>

-----------------------------------------------------------------------------
(* Bounds and input alphabets                                              *)

\* longest frame handed to autoCorrelate in SpecAC
MaxLen == 10

\* most frames one session analyses before it is stopped
MaxFrames == 5

\* most handlers suspended at an await at the same time
MaxTasks == 2

\* most animation-frame requests pending at the same time
MaxPending == 2

\* sample values, in units of 1/Scale: -1.0, 0 and 1/64
Samples == {-64, 0, 1}

\* sampleRate arguments of autoCorrelate in SpecAC
SampleRates == {44100}

\* audioContext.sampleRate of the contexts the page creates
DeviceRates == {44100}

-----------------------------------------------------------------------------
(* Constants of the program                                                *)

Scale == 64

BUFFER_SIZE == 1
MIN_RMS == <<1, 1000>>
NOISE_THRESHOLD == <<2, 100>>

-----------------------------------------------------------------------------
(* Arithmetic helpers: the doubles of the page.  The magnitude of a        *)
(* finite double other than zero is <<hi, mid, lo, e>>, which stands for   *)
(* (hi * 2^36 + mid * 2^18 + lo) * 2^e: its 53-bit mantissa cut into limbs *)
(* of 18 bits, with 2^16 <= hi < 2^17.  Sums, differences and quotients    *)
(* are rounded to the nearest double, ties to the even mantissa.           *)

Abs(x) == IF x < 0 THEN -x ELSE x

RECURSIVE GCD(_, _)
GCD(a, b) == IF b = 0 THEN a ELSE GCD(b, a % b)

Limb == 262144

DoubleLess(x, y) ==
  \/ x[4] < y[4]
  \/ x[4] = y[4] /\ x[1] < y[1]
  \/ x[4] = y[4] /\ x[1] = y[1] /\ x[2] < y[2]
  \/ x[4] = y[4] /\ x[1] = y[1] /\ x[2] = y[2] /\ x[3] < y[3]

\* the integer hi * Limb^2 + mid * Limb + lo with mid and lo brought
\* below Limb
Carry(hi, mid, lo) ==
  LET m == mid + (lo \div Limb)
  IN  <<hi + (m \div Limb), m % Limb, lo % Limb>>

IntLess(x, y) ==
  \/ x[1] < y[1]
  \/ x[1] = y[1] /\ x[2] < y[2]
  \/ x[1] = y[1] /\ x[2] = y[2] /\ x[3] < y[3]

\* x - y for x >= y
IntMinus(x, y) ==
  LET lo == x[3] - y[3]
      bl == IF lo < 0 THEN 1 ELSE 0
      mid == x[2] - y[2] - bl
      bm == IF mid < 0 THEN 1 ELSE 0
  IN  <<x[1] - y[1] - bm, mid + bm * Limb, lo + bl * Limb>>

IntTimes(n, x) == Carry(n * x[1], n * x[2], n * x[3])

\* the integer n / 2^s rounded to the nearest integer, a tie going to the
\* even one; sticky tells that n itself was cut off from something larger
ShiftRound(n, s, sticky) ==
  LET p == 2 ^ s
      up == Limb \div p
      lost == n[3] % p
      kept == <<n[1] \div p,
                (n[2] \div p) + (n[1] % p) * up,
                (n[3] \div p) + (n[2] % p) * up>>
      roundUp == /\ s > 0
                 /\ \/ 2 * lost > p
                    \/ 2 * lost = p /\ (sticky \/ kept[3] % 2 = 1)
  IN  IF roundUp THEN Carry(kept[1], kept[2], kept[3] + 1) ELSE kept

\* a rounded mantissa that reached 2^53 is 2^52 with the next exponent
Renormalised(m, e) ==
  IF m[1] >= 2 * 65536 THEN <<65536, 0, 0, e + 1>>
  ELSE <<m[1], m[2], m[3], e>>

\* n * x for an integer 0 < n < 2^12, the product of two doubles
TimesInteger(n, x) ==
  LET raw == IntTimes(n, x)
      s == CHOOSE t \in 0..12 :
             /\ raw[1] < 2 * 65536 * 2 ^ t
             /\ t > 0 => raw[1] >= 65536 * 2 ^ t
  IN  Renormalised(ShiftRound(raw, s, FALSE), x[4] + s)

\* one digit of long division in the given radix, for r < d:
\* <<q * radix + g, r * radix - g * d>> for the digit g = r * radix \div d,
\* found between the bounds that the first limbs give
DivideDigit(r, d, q, radix) ==
  LET Digit(rs, qs) ==
        LET Found(g) ==
              <<Carry(qs[1], qs[2], qs[3] + g), IntMinus(rs, IntTimes(g, d))>>
            least == rs[1] \div (d[1] + 1)
            most == (rs[1] + 1) \div d[1]
        IN  Found(CHOOSE h \in least..(IF most >= radix THEN radix - 1
                                                        ELSE most) :
                    /\ ~IntLess(rs, IntTimes(h, d))
                    /\ IntLess(rs, IntTimes(h + 1, d)))
  IN  Digit(IntTimes(radix, r), IntTimes(radix, q))

\* long division to 54 binary places, n digits of twelve bits and one of
\* six: <<quotient, remainder>>
RECURSIVE DivideDigits(_, _, _, _)
DivideDigits(r, d, q, n) ==
  LET Next12(step) == DivideDigits(step[2], d, step[1], n - 1)
  IN  IF n = 0 THEN DivideDigit(r, d, q, 64)
      ELSE Next12(DivideDigit(r, d, q, 4096))

\* the same long division for r < d < 2^17 standing for r * 2^36 and
\* d * 2^36, as the mantissas of whole numbers below 2^17 are: the digits
\* come from the first limbs alone
ShortDivide(r, d, q) ==
  LET Digits(a1, a2, a3, a4, a5) ==
        <<<<q * Limb + (a1 \div d) * 64 + (a2 \div (64 * d)),
            ((a2 \div d) % 64) * 4096 + (a3 \div d),
            (a4 \div d) * 64 + (a5 \div d)>>,
          <<0, 0, a5 % d>>>>
      D4(a1, a2, a3, a4) == Digits(a1, a2, a3, a4, (a4 % d) * 64)
      D3(a1, a2, a3) == D4(a1, a2, a3, (a3 % d) * 4096)
      D2(a1, a2) == D3(a1, a2, (a2 % d) * 4096)
      D1(a1) == D2(a1, (a1 % d) * 4096)
  IN  D1(r * 4096)

\* x / y, the quotient of two doubles: the quotient of the mantissas to 54
\* binary places, rounded to 53 bits
Quotient(x, y) ==
  LET Rounding(qr, s) ==
        Renormalised(ShiftRound(qr[1], s, qr[2] # <<0, 0, 0>>),
                     x[4] - y[4] - 54 + s)
      Mantissas(mx, my) ==
        IF x[2] = 0 /\ x[3] = 0 /\ y[2] = 0 /\ y[3] = 0
        THEN IF IntLess(mx, my)
             THEN Rounding(ShortDivide(x[1], y[1], 0), 1)
             ELSE Rounding(ShortDivide(x[1] - y[1], y[1], 1), 2)
        ELSE IF IntLess(mx, my)
        THEN Rounding(DivideDigits(mx, my, <<0, 0, 0>>, 4), 1)
        ELSE Rounding(DivideDigits(IntMinus(mx, my), my, <<0, 0, 1>>, 4), 2)
  IN  Mantissas(<<x[1], x[2], x[3]>>, <<y[1], y[2], y[3]>>)

\* the number of bits of an integer n >= 0
RECURSIVE BitLength(_)
BitLength(n) == IF n = 0 THEN 0 ELSE 1 + BitLength(n \div 2)

\* n * 2^t for 0 <= t < 18
ShiftLeft(n, t) ==
  LET p == 2 ^ t
      up == Limb \div p
  IN  <<n[1] * p + (n[2] \div up),
        (n[2] % up) * p + (n[3] \div up),
        (n[3] % up) * p>>

\* <<n / 2^s rounded down, whether anything was cut off>>
RECURSIVE ShiftSticky(_, _, _)
ShiftSticky(n, s, sticky) ==
  IF n = <<0, 0, 0>> \/ s = 0 THEN <<n, sticky>>
  ELSE IF s >= 18
  THEN ShiftSticky(<<n[1] \div Limb, n[1] % Limb, n[2]>>, s - 18,
                   sticky \/ n[3] # 0)
  ELSE LET p == 2 ^ s
           up == Limb \div p
       IN  <<<<n[1] \div p,
               (n[2] \div p) + (n[1] % p) * up,
               (n[3] \div p) + (n[2] % p) * up>>,
             sticky \/ n[3] % p # 0>>

\* a JavaScript number: a finite double other than zero with its sign and
\* magnitude, a zero or an infinity with its sign, or NaN
Finite(neg, mag) == [kind |-> "finite", neg |-> neg, mag |-> mag]
SignedZero(neg) == [kind |-> "zero", neg |-> neg, mag |-> <<0, 0, 0, 0>>]
SignedInfinity(neg) == [kind |-> "inf", neg |-> neg, mag |-> <<0, 0, 0, 0>>]
NaN == [kind |-> "nan", neg |-> FALSE, mag |-> <<0, 0, 0, 0>>]
Zero == SignedZero(FALSE)

\* the double nearest to n * 2^e, or to something between n * 2^e and
\* (n + 1) * 2^e when sticky, for an integer n > 0 in limbs
RECURSIVE Rounded(_, _, _, _)
Rounded(neg, n, e, sticky) ==
  LET Left(m, t) == Finite(neg, <<m[1], m[2], m[3], e - t>>)
      Sized(bits) ==
        IF bits <= 17 THEN Left(ShiftLeft(n, 17 - bits), 17 - bits)
        ELSE Finite(neg, Renormalised(ShiftRound(n, bits - 17, sticky),
                                      e + (bits - 17)))
  IN  IF n = <<0, 0, 0>> THEN SignedZero(neg)
      ELSE IF n[1] = 0 THEN Rounded(neg, <<n[2], n[3], 0>>, e - 18, sticky)
      ELSE Sized(BitLength(n[1]))

\* the double of an integer
FromInteger(n) ==
  IF n = 0 THEN Zero
  ELSE Rounded(n < 0, <<0, Abs(n) \div Limb, Abs(n) % Limb>>, 0, FALSE)

\* a * 2^k, exactly
Scaled(a, k) ==
  IF a.kind = "finite"
  THEN Finite(a.neg, <<a.mag[1], a.mag[2], a.mag[3], a.mag[4] + k>>)
  ELSE a

\* a + b for two finite doubles other than zero: the smaller one is brought
\* to the exponent of the larger one with three more bits kept
PlusFinite(a, b) ==
  LET Sum(big, small, B, S) ==
        IF big.neg # small.neg /\ S[1] = B /\ ~S[2] THEN Zero
        ELSE Rounded(big.neg,
                     IF big.neg = small.neg
                     THEN Carry(B[1] + S[1][1], B[2] + S[1][2], B[3] + S[1][3])
                     ELSE IntMinus(IntMinus(B, S[1]),
                                   IF S[2] THEN <<0, 0, 1>> ELSE <<0, 0, 0>>),
                     big.mag[4] - 3, S[2])
      Aligned(big, small) ==
        Sum(big, small,
            ShiftLeft(<<big.mag[1], big.mag[2], big.mag[3]>>, 3),
            ShiftSticky(ShiftLeft(<<small.mag[1], small.mag[2], small.mag[3]>>,
                                  3),
                        big.mag[4] - small.mag[4], FALSE))
      Ordered(swap) == Aligned(IF swap THEN b ELSE a, IF swap THEN a ELSE b)
  IN  Ordered(DoubleLess(a.mag, b.mag))

\* a + b
Plus(a, b) ==
  IF a.kind = "nan" \/ b.kind = "nan" THEN NaN
  ELSE IF a.kind = "inf"
  THEN IF b.kind = "inf" /\ a.neg # b.neg THEN NaN ELSE a
  ELSE IF b.kind = "inf" THEN b
  ELSE IF a.kind = "zero"
  THEN IF b.kind = "zero" THEN SignedZero(a.neg /\ b.neg) ELSE b
  ELSE IF b.kind = "zero" THEN a
  ELSE PlusFinite(a, b)

\* a - b
Minus(a, b) ==
  Plus(a, IF b.kind = "nan" THEN b ELSE [b EXCEPT !.neg = ~b.neg])

\* a / b
Divided(a, b) ==
  IF a.kind = "nan" \/ b.kind = "nan" THEN NaN
  ELSE IF a.kind = "inf"
  THEN IF b.kind = "inf" THEN NaN ELSE SignedInfinity(a.neg # b.neg)
  ELSE IF b.kind = "inf" THEN SignedZero(a.neg # b.neg)
  ELSE IF b.kind = "zero"
  THEN IF a.kind = "zero" THEN NaN ELSE SignedInfinity(a.neg # b.neg)
  ELSE IF a.kind = "zero" THEN SignedZero(a.neg # b.neg)
  ELSE Finite(a.neg # b.neg, Quotient(a.mag, b.mag))

\* a < b; false when either is NaN, and -0 is not below +0
Sign(a) == IF a.kind = "zero" THEN 0 ELSE IF a.neg THEN -1 ELSE 1
MagnitudeLess(a, b) ==
  /\ a.kind = "finite"
  /\ b.kind = "inf" \/ DoubleLess(a.mag, b.mag)
Less(a, b) ==
  /\ a.kind # "nan" /\ b.kind # "nan"
  /\ \/ Sign(a) < Sign(b)
     \/ Sign(a) = 1 /\ Sign(b) = 1 /\ MagnitudeLess(a, b)
     \/ Sign(a) = -1 /\ Sign(b) = -1 /\ MagnitudeLess(b, a)

\* what storing a double in a Float32Array keeps: the nearest number with a
\* 24-bit mantissa (the scores stored are far from the ends of its range)
ToFloat32(a) ==
  IF a.kind # "finite" THEN a
  ELSE Rounded(a.neg,
               ShiftRound(<<0, a.mag[1], a.mag[2]>>, 11, a.mag[3] # 0),
               a.mag[4] + 29, FALSE)

One == FromInteger(1)

\* the value -1 that autoCorrelate returns for "no pitch"
NoPitch == FromInteger(-1)

\* the literals of autoCorrelate: 0.9 (good correlation), 0.01 (fallback
\* floor), the doubles nearest to 9/10 and 1/100
GOOD_ENOUGH_CORRELATION == Divided(FromInteger(9), FromInteger(10))
MIN_BEST_CORRELATION == Divided(One, FromInteger(100))

-----------------------------------------------------------------------------
(* autoCorrelate(buf, sampleRate).  Samples are Float32 values; the model  *)
(* keeps a sample as an integer in units of 1/Scale.                       *)

RECURSIVE SumSquares(_, _)
SumSquares(b, i) == IF i > Len(b) THEN 0 ELSE b[i] * b[i] + SumSquares(b, i + 1)

\* rms = Math.sqrt(buf.reduce(...) / SIZE), compared with a threshold t:
\* rms < t  iff  sum * t.den^2 < t.num^2 * Scale^2 * SIZE.  For SIZE = 0 the
\* code computes 0/0 = NaN and every comparison with NaN is false.
RmsBelow(b, t) ==
  LET a == t[2] * t[2]
      c == t[1] * t[1] * Scale * Scale
      g == GCD(a, c)
  IN  Len(b) > 0 /\ SumSquares(b, 1) * (a \div g) < (c \div g) * Len(b)

RmsAbove(b, t) ==
  LET a == t[2] * t[2]
      c == t[1] * t[1] * Scale * Scale
      g == GCD(a, c)
  IN  Len(b) > 0 /\ SumSquares(b, 1) * (a \div g) > (c \div g) * Len(b)

MaxSamples(b) == Len(b) \div 2

\* the inner loop: sum over i < MAX_SAMPLES of |buf[i] - buf[i + offset]|,
\* in units of 1/Scale; every partial sum is a double
RECURSIVE SumAbsDiff(_, _, _)
SumAbsDiff(b, offset, i) ==
  IF i >= MaxSamples(b) THEN 0
  ELSE Abs(b[i + 1] - b[i + offset + 1]) + SumAbsDiff(b, offset, i + 1)

\* line 90: correlation = 1 - (correlation / MAX_SAMPLES), with Scale = 2^6
Correlation(b, offset) ==
  Minus(One, Divided(Scaled(FromInteger(SumAbsDiff(b, offset, 0)), -6),
                     FromInteger(MaxSamples(b))))

\* the noise gate: rms < CONSTANTS.NOISE_THRESHOLD
NoiseGateNever(b) == FALSE
NoiseGate(b) == RmsBelow(b, NOISE_THRESHOLD)

\* (correlation > 0.9) && (correlation > lastCorrelation)
IsGoodCorrelationNoRise(correlation, lastCorrelation) ==
  Less(GOOD_ENOUGH_CORRELATION, correlation)
IsGoodCorrelation(correlation, lastCorrelation) ==
  /\ Less(GOOD_ENOUGH_CORRELATION, correlation)
  /\ Less(lastCorrelation, correlation)

\* correlations[i] of the Float32Array(MAX_SAMPLES) is undefined outside it
Defined(correlations, i) == i >= 0 /\ i < Len(correlations)

\* lines 100-101: shift and sampleRate / (bestOffset + 8 * shift) on the
\* Float32 values read back from correlations; an undefined element turns
\* into NaN in the arithmetic
Refine(sr, correlations, bestOffset) ==
  LET At(i) == IF Defined(correlations, i) THEN correlations[i + 1] ELSE NaN
  IN  Divided(FromInteger(sr),
              Plus(FromInteger(bestOffset),
                   Scaled(Divided(Minus(At(bestOffset + 1), At(bestOffset - 1)),
                                  At(bestOffset)),
                          3)))

\* lines 106-109, after the loop
AfterScan(b, sr, st) ==
  IF Less(MIN_BEST_CORRELATION, st.bestCorrelation)
  THEN [result |-> Divided(FromInteger(sr), FromInteger(st.bestOffset)),
        exit |-> "fallback", scanned |-> MaxSamples(b), st |-> st]
  ELSE [result |-> NoPitch, exit |-> "nopitch",
        scanned |-> MaxSamples(b), st |-> st]

\* the for loop of lines 83-104, from `offset` on; line 91 stores the score
\* in the Float32Array, the comparisons use the double
RECURSIVE ScanOffsets(_, _, _, _)
ScanOffsets(b, sr, offset, st) ==
  LET Stored(correlation, correlations) ==
        IF IsGoodCorrelation(correlation, st.lastCorrelation)
        THEN ScanOffsets(b, sr, offset + 1,
               [foundGoodCorrelation |-> TRUE,
                bestCorrelation |-> IF Less(st.bestCorrelation, correlation)
                                    THEN correlation ELSE st.bestCorrelation,
                bestOffset |-> IF Less(st.bestCorrelation, correlation)
                               THEN offset ELSE st.bestOffset,
                lastCorrelation |-> correlation,
                correlations |-> correlations])
        ELSE IF st.foundGoodCorrelation
        THEN [result |-> Refine(sr, correlations, st.bestOffset),
              exit |-> "refined", scanned |-> offset + 1,
              st |-> [st EXCEPT !.correlations = correlations]]
        ELSE ScanOffsets(b, sr, offset + 1,
               [st EXCEPT !.lastCorrelation = correlation,
                          !.correlations = correlations])
      Scored(correlation) ==
        Stored(correlation,
               [st.correlations EXCEPT ![offset + 1] = ToFloat32(correlation)])
  IN  IF offset >= MaxSamples(b) THEN AfterScan(b, sr, st)
      ELSE Scored(Correlation(b, offset))

\* lines 78-81 and the Float32Array of line 72
ScanStart(b) ==
  [foundGoodCorrelation |-> FALSE, bestCorrelation |-> Zero, bestOffset |-> -1,
   lastCorrelation |-> One,
   correlations |-> [i \in 1..MaxSamples(b) |-> Zero]]

\* the whole call: result, the exit taken, the number of lags scanned and
\* the locals at the exit
autoCorrelateRun(b, sr) ==
  IF NoiseGate(b)
  THEN [result |-> NoPitch, exit |-> "gate", scanned |-> 0, st |-> ScanStart(b)]
  ELSE ScanOffsets(b, sr, 0, ScanStart(b))

autoCorrelate(b, sr) == autoCorrelateRun(b, sr).result

-----------------------------------------------------------------------------
(* updatePitch: the pitch history and the smoothed pitch                   *)

\* rms > CONSTANTS.MIN_RMS && ac !== -1
IsDetectedLoudOnly(frame, ac) == RmsAbove(frame, MIN_RMS)
IsDetected(frame, ac) == RmsAbove(frame, MIN_RMS) /\ ac # NoPitch

\* pitchBuffer.push(ac); if (length > BUFFER_SIZE) pitchBuffer.shift()
PushPitchNoShift(pitchBuffer, ac) == Append(pitchBuffer, ac)
PushPitch(pitchBuffer, ac) ==
  LET pushed == Append(pitchBuffer, ac)
  IN  IF Len(pushed) > BUFFER_SIZE THEN Tail(pushed) ELSE pushed

\* the comparator (a, b) => a - b of line 183 as the sort reads it: a
\* result of NaN counts as 0
Compare(a, b) ==
  LET Order(v) == IF v.kind = "nan" THEN Zero ELSE v IN Order(Minus(a, b))

\* order < 0
IsNegative(order) == Less(order, Zero)

\* Array.prototype.sort on an array shorter than 64, as the engine of the
\* page runs it: the run the array starts with is found (and reversed when
\* it descends), then every later element is inserted by binary search.

\* the length of the run seq starts with, from the element at idx on
RECURSIVE RunLength(_, _, _)
RunLength(seq, descending, idx) ==
  IF idx > Len(seq) THEN Len(seq)
  ELSE IF IsNegative(Compare(seq[idx], seq[idx - 1])) # descending
  THEN idx - 1
  ELSE RunLength(seq, descending, idx + 1)

\* <<the array with its first run ascending, the length of that run>>
CountAndMakeRun(seq) ==
  LET Run(descending, n) ==
        IF descending
        THEN <<[i \in 1..Len(seq) |-> IF i <= n THEN seq[n + 1 - i] ELSE seq[i]],
               n>>
        ELSE <<seq, n>>
      Direction(descending) == Run(descending, RunLength(seq, descending, 3))
  IN  Direction(IsNegative(Compare(seq[2], seq[1])))

\* the place of pivot among seq[left + 1 .. right], which is sorted
RECURSIVE InsertionPoint(_, _, _, _)
InsertionPoint(seq, pivot, left, right) ==
  IF left >= right THEN left
  ELSE LET mid == left + ((right - left) \div 2)
       IN  IF IsNegative(Compare(pivot, seq[mid + 1]))
           THEN InsertionPoint(seq, pivot, left, mid)
           ELSE InsertionPoint(seq, pivot, mid + 1, right)

\* the element at start + 1 inserted among the start elements before it
Insert(seq, start) ==
  LET At(pivot, left) ==
        SubSeq(seq, 1, left) \o <<pivot>> \o SubSeq(seq, left + 1, start)
          \o SubSeq(seq, start + 2, Len(seq))
  IN  At(seq[start + 1], InsertionPoint(seq, seq[start + 1], 0, start))

RECURSIVE BinaryInsertionSort(_, _)
BinaryInsertionSort(seq, start) ==
  IF start >= Len(seq) THEN seq
  ELSE BinaryInsertionSort(Insert(seq, start), start + 1)

\* [...pitchBuffer].sort((a, b) => a - b)
Sort(seq) ==
  LET Inserted(run) == BinaryInsertionSort(run[1], run[2])
  IN  IF Len(seq) < 2 THEN seq ELSE Inserted(CountAndMakeRun(seq))

\* lines 183-186: the median of the buffer, or lastValidPitch || 0, where
\* 0, -0 and NaN are falsy
SmoothedPitchNoFallback(pitchBuffer, lastValidPitch) ==
  IF Len(pitchBuffer) > 0
  THEN Sort(pitchBuffer)[(Len(pitchBuffer) \div 2) + 1]
  ELSE Zero
SmoothedPitch(pitchBuffer, lastValidPitch) ==
  IF Len(pitchBuffer) > 0
  THEN Sort(pitchBuffer)[(Len(pitchBuffer) \div 2) + 1]
  ELSE IF lastValidPitch.kind \in {"zero", "nan"} THEN Zero
  ELSE lastValidPitch

\* lines 174-186 on the tracker's two fields: what one estimate does to
\* them and the smoothed pitch it yields
TrackEstimate(pitchBuffer, lastValidPitch, detected, ac) ==
  LET buffer == IF detected THEN PushPitch(pitchBuffer, ac) ELSE pitchBuffer
      valid == IF detected THEN ac ELSE lastValidPitch
  IN  [ac |-> ac, pitchBuffer |-> buffer, lastValidPitch |-> valid,
       pitch |-> SmoothedPitch(buffer, valid)]

\* lines 163-186: the frame is analysed, then tracked
TrackPitch(ts, frame) ==
  LET Tracked(ac) ==
        TrackEstimate(ts.pitchBuffer, ts.lastValidPitch, IsDetected(frame, ac),
                      ac)
  IN  Tracked(autoCorrelate(frame, ts.audioContext.sampleRate))

-----------------------------------------------------------------------------
(* The page: tunerState, the button, animation frames, suspended handlers  *)

NullContext == [state |-> "null", sampleRate |-> 0]

\* lines 2-12
InitialTunerState ==
  [audioContext |-> NullContext, analyser |-> FALSE, mediaStreamSource |-> FALSE,
   animationId |-> 0, pitchBuffer |-> <<>>, lastValidPitch |-> Zero,
   gainNode |-> FALSE, isRunning |-> FALSE, currentStream |-> FALSE]

\* the callers of cleanup: initializeAudio (line 38), the click handler when
\* running (line 377) and in its catch (line 382), the unload handler
Callers == {"init", "stop", "catch", "unload"}

\* the awaits a handler can be suspended at: audioContext.resume() in
\* initializeAudio, getUserMedia in the click handler, and in cleanup the
\* close() of a context not closed before, named by the caller of cleanup
Awaits == {"resume", "getUserMedia"} \cup Callers

NoTasks == [a \in Awaits |-> 0]

RECURSIVE SumOver(_, _)
SumOver(f, S) ==
  IF S = {} THEN 0
  ELSE LET x == CHOOSE y \in S : TRUE IN f[x] + SumOver(f, S \ {x})

Suspended(w) == SumOver(w.pending, Awaits)

Suspend(w, a) == [w EXCEPT !.pending[a] = @ + 1]
Wake(w, a) == [w EXCEPT !.pending[a] = @ - 1]

\* the frames the analyser delivers: silence, a quiet hum, a loud frame
\* without periodicity, tones of period 2 and 3 samples, and two frames
\* whose scores fall so steeply after the best lag that the denominator of
\* lines 100-101 is negative (estimate -1124550.000000004) or zero
\* (estimate Infinity)
Silence == <<0, 0, 0, 0, 0, 0, 0, 0>>
Hum == <<0, 0, 0, 1, 0, 1, 0, 0>>
Rumble == <<-64, -64, -64, -64, -64, -64, -64, -64>>
Tone2 == <<-64, 0, -64, 0, -64, 0, -64, -64>>
Tone3 == <<-64, -64, 0, -64, -64, 0, -64, -64>>
Steep == <<0, 0, 0, 1, 0, 1, -64, -64>>
Pole == <<0, 1, 0, 1, 0, 1, -64, -64>>
Frames == {Silence, Hum, Rumble, Tone2, Tone3, Steep, Pole}

\* the state as one record, so that a handler is a function of it
World ==
  [ts |-> tunerState, button |-> button, raf |-> rafPending,
   pending |-> pending, fed |-> fed, pitch |-> pitch, display |-> display,
   ended |-> ended]

Become(w) ==
  /\ tunerState' = w.ts
  /\ button' = w.button
  /\ rafPending' = w.raf
  /\ pending' = w.pending
  /\ fed' = w.fed
  /\ pitch' = w.pitch
  /\ display' = w.display
  /\ ended' = w.ended

\* requestAnimationFrame returns a handle no pending request has
NewFrameId(w) ==
  CHOOSE n \in 1..(Cardinality(w.raf) + 2) :
    /\ n \notin w.raf /\ n # w.ts.animationId
    /\ \A m \in 1..(n - 1) : m \in w.raf \/ m = w.ts.animationId

\* updateUIState, lines 136-159: the button, and for 'stopped' the fields
updateUIState(w, state) ==
  [w EXCEPT !.button = state,
            !.display = IF state = "stopped" THEN "idle" ELSE @]

\* lines 191-214: a reading when pitch > 0 (Infinity included, NaN not),
\* the marker otherwise
PitchAboveZero(f) == Less(Zero, f)
Display(f) == IF PitchAboveZero(f) THEN "reading" ELSE "marker"

\* updatePitch throws at its first lines when the analyser or the context
\* is null
CanUpdatePitch(w) == w.ts.analyser /\ w.ts.audioContext.state # "null"

\* updatePitch, lines 162-217
updatePitch(w, frame) ==
  LET Shown(t, id) == [w EXCEPT !.ts.pitchBuffer = t.pitchBuffer,
                                !.ts.lastValidPitch = t.lastValidPitch,
                                !.ts.animationId = id,
                                !.raf = @ \cup {id},
                                !.fed = Append(@, t.ac),
                                !.pitch = t.pitch,
                                !.display = Display(t.pitch)]
  IN  Shown(TrackPitch(w.ts, frame), NewFrameId(w))

\* cleanup, lines 270-296: up to the await
CleanupSyncNoCancel(w) ==
  [w EXCEPT !.ts.currentStream = FALSE,
            !.ts.animationId = 0,
            !.ts.mediaStreamSource = FALSE,
            !.ts.gainNode = FALSE,
            !.ts.analyser = FALSE]
CleanupSync(w) ==
  [w EXCEPT !.ts.currentStream = FALSE,
            !.raf = IF w.ts.animationId # 0 THEN @ \ {w.ts.animationId} ELSE @,
            !.ts.animationId = 0,
            !.ts.mediaStreamSource = FALSE,
            !.ts.gainNode = FALSE,
            !.ts.analyser = FALSE]

\* cleanup, lines 304-311: "Reset state" and the button
CleanupReset(w, keepButtonState) ==
  LET w1 == [w EXCEPT !.ts.pitchBuffer = <<>>,
                      !.fed = <<>>,
                      !.pitch = Zero,
                      !.ts.isRunning = FALSE]
  IN  IF keepButtonState THEN w1 ELSE updateUIState(w1, "stopped")

\* cleanup, lines 312-318: the catch
CleanupCaught(w, keepButtonState) ==
  IF keepButtonState THEN w ELSE updateUIState(w, "stopped")

\* lines 41-42: a new context, then await resume()
CreateContext(w, rate) ==
  Suspend([w EXCEPT !.ts.audioContext = [state |-> "open", sampleRate |-> rate]],
          "resume")

\* what the caller of cleanup does once cleanup has returned
AfterCleanup(w, caller, rate) ==
  CASE caller = "init" -> CreateContext(w, rate)
    [] caller = "catch" -> [updateUIState(w, "stopped") EXCEPT !.ended = "failed"]
    [] caller = "stop" -> [w EXCEPT !.ended = "stopped"]
    [] OTHER -> w

\* a call of cleanup.  Without a context it returns at once.  close() on a
\* context that close() was called on before returns a rejected promise, so
\* the catch of line 312 and the caller's continuation run before any other
\* event.  Otherwise cleanup is suspended until the context has closed.
Cleanup(w, caller, rate) ==
  LET w1 == CleanupSync(w)
      state == w.ts.audioContext.state
      keep == caller = "init"
  IN  CASE state = "null" -> AfterCleanup(CleanupReset(w1, keep), caller, rate)
        [] state = "closed" -> AfterCleanup(CleanupCaught(w1, keep), caller, rate)
        [] OTHER -> Suspend([w1 EXCEPT !.ts.audioContext.state = "closed"], caller)

\* cleanup resumed after close(): lines 301-311
CleanupResumed(w, caller, rate) ==
  LET w1 == Wake(w, caller)
      w2 == CleanupReset([w1 EXCEPT !.ts.audioContext = NullContext],
                         caller = "init")
  IN  AfterCleanup(w2, caller, rate)

\* the catch of the click handler, lines 379-384
CatchNoCleanup(w) == [updateUIState(w, "stopped") EXCEPT !.ended = "failed"]
Catch(w) == Cleanup(w, "catch", 0)

\* the click handler up to its first await, lines 350-378
Click(w, rate) ==
  LET w0 == [w EXCEPT !.ended = "none"] IN
  IF ~w0.ts.isRunning
  THEN LET w1 == updateUIState(w0, "loading")
       IN  IF ~compatible THEN Catch(w1)
           ELSE IF w1.ts.audioContext.state # "null"
           THEN Cleanup(w1, "init", rate)
           ELSE CreateContext(w1, rate)
  ELSE Cleanup(w0, "stop", 0)

\* initializeAudio resumed after resume(), lines 44-60, then getUserMedia
Resumed(w, ok) ==
  LET w1 == Wake(w, "resume")
  IN  IF ~ok \/ w1.ts.audioContext.state = "null" THEN Catch(w1)
      ELSE Suspend([w1 EXCEPT !.ts.analyser = TRUE, !.ts.gainNode = TRUE],
                   "getUserMedia")

\* the click handler resumed after getUserMedia, lines 365-375
GotUserMedia(w, ok, frame) ==
  LET w1 == Wake(w, "getUserMedia")
      w2 == [w1 EXCEPT !.ts.currentStream = TRUE]
      w3 == [w2 EXCEPT !.ts.mediaStreamSource = TRUE]
  IN  IF ~ok THEN Catch(w1)
      ELSE IF w2.ts.audioContext.state = "null" THEN Catch(w2)
      ELSE IF ~(w3.ts.gainNode /\ w3.ts.analyser) THEN Catch(w3)
      ELSE LET w4 == updatePitch(w3, frame)
           IN  [updateUIState([w4 EXCEPT !.ts.isRunning = TRUE], "running")
                  EXCEPT !.ended = "started"]

\* an animation frame runs updatePitch; an exception ends the callback
AnimationFrame(w, id, frame) ==
  LET w1 == [w EXCEPT !.raf = @ \ {id}]
  IN  IF CanUpdatePitch(w1) THEN updatePitch(w1, frame) ELSE w1

\* the unload handler, lines 388-392
Unload(w) == IF w.ts.isRunning THEN Cleanup(w, "unload", 0) ELSE w

-----------------------------------------------------------------------------
(* Spec: the page                                                          *)

\* the note functions at rest
IdleNote ==
  /\ noteIn = 0
  /\ centsIn = <<0, 1>>
  /\ notePc = "off"
  /\ noteOut = [freq |-> <<0, 0, 0, 0>>, note |-> 0,
                ideal |-> <<0, 0, 0, 0>>,
                cents |-> 0, direction |-> "none"]

\* no service worker registered, no cache, no request
IdleSW ==
  /\ cacheStorage = <<>>
  /\ workerState = <<>>
  /\ inFlight = {}
  /\ answered = <<>>

IdleAC ==
  /\ buf = <<>>
  /\ sampleRate = 0
  /\ acPc = "off"
  /\ acOut = [result |-> NoPitch, exit |-> "none", scanned |-> 0,
              st |-> ScanStart(<<>>)]

Init ==
  /\ tunerState = InitialTunerState
  /\ button = "stopped"
  /\ rafPending = {}
  /\ pending = NoTasks
  /\ fed = <<>>
  /\ pitch = Zero
  /\ display = "idle"
  /\ ended = "none"
  /\ IdleNote
  /\ IdleSW
  /\ compatible \in BOOLEAN
  /\ unloaded = FALSE
  /\ IdleAC

Rest == UNCHANGED <<compatible, unloaded, acVars, noteVars, swVars>>

ClickStart ==
  /\ ~unloaded /\ button # "loading" /\ ~tunerState.isRunning
  /\ Suspended(World) < MaxTasks
  /\ \E rate \in DeviceRates : Become(Click(World, rate))
  /\ Rest

ClickStop ==
  /\ ~unloaded /\ button # "loading" /\ tunerState.isRunning
  /\ Suspended(World) < MaxTasks
  /\ Become(Click(World, 0))
  /\ Rest

ResumeSettles ==
  /\ ~unloaded /\ pending["resume"] > 0
  /\ \E ok \in BOOLEAN : Become(Resumed(World, ok))
  /\ Rest

GetUserMediaSettles ==
  /\ ~unloaded /\ pending["getUserMedia"] > 0
  /\ \E ok \in BOOLEAN, frame \in Frames :
        /\ ok => (Len(fed) < MaxFrames /\ Cardinality(rafPending) < MaxPending)
        /\ Become(GotUserMedia(World, ok, frame))
  /\ Rest

CloseSettles ==
  /\ ~unloaded
  /\ \E c \in Callers, rate \in DeviceRates :
        /\ pending[c] > 0
        /\ Become(CleanupResumed(World, c, rate))
  /\ Rest

Tick ==
  /\ ~unloaded /\ Len(fed) < MaxFrames
  /\ \E id \in rafPending, frame \in Frames :
        Become(AnimationFrame(World, id, frame))
  /\ Rest

PageUnload ==
  /\ ~unloaded
  /\ Become(Unload(World))
  /\ unloaded' = TRUE
  /\ UNCHANGED <<compatible, acVars, noteVars, swVars>>

Next ==
  \/ ClickStart
  \/ ClickStop
  \/ ResumeSettles
  \/ GetUserMediaSettles
  \/ CloseSettles
  \/ Tick
  \/ PageUnload

Spec == Init /\ [][Next]_vars

-----------------------------------------------------------------------------
(* SpecAC: autoCorrelate applied to every frame of up to MaxLen samples    *)

IdleApp ==
  /\ tunerState = InitialTunerState
  /\ button = "stopped"
  /\ rafPending = {}
  /\ pending = NoTasks
  /\ fed = <<>>
  /\ pitch = Zero
  /\ display = "idle"
  /\ ended = "none"
  /\ compatible = TRUE
  /\ unloaded = FALSE

InitAC ==
  /\ \E n \in 0..MaxLen : buf \in [1..n -> Samples]
  /\ sampleRate \in SampleRates
  /\ acPc = "ready"
  /\ acOut = [result |-> NoPitch, exit |-> "none", scanned |-> 0,
              st |-> ScanStart(<<>>)]
  /\ IdleApp
  /\ IdleNote
  /\ IdleSW

Analyze ==
  /\ acPc = "ready"
  /\ acOut' = autoCorrelateRun(buf, sampleRate)
  /\ acPc' = "done"
  /\ UNCHANGED <<buf, sampleRate>>
  /\ UNCHANGED <<appVars, noteVars, swVars>>

NextAC == Analyze

SpecAC == InitAC /\ [][NextAC]_vars

-----------------------------------------------------------------------------
(* Reference notions for the claims about autoCorrelate, stated on the     *)
(* scores alone, without the loop's locals                                 *)

Lags(b) == 0..(MaxSamples(b) - 1)

\* the score 1 - D(l) / MAX_SAMPLES of lag l as a number of the reals, in
\* units of 1 / (MAX_SAMPLES * Scale), and the number 1 in these units
Score(b, l) == MaxSamples(b) * Scale - SumAbsDiff(b, l, 0)
ScoreOne(b) == MaxSamples(b) * Scale

\* the score of every lag: s[l + 1] is the score of lag l
AllScores(b) == [i \in 1..MaxSamples(b) |-> Score(b, i - 1)]

\* the scores as autoCorrelate reads them back from its Float32Array
StoredScores(b) ==
  [i \in 1..MaxSamples(b) |-> ToFloat32(Correlation(b, i - 1))]

\* a frequency that a reading can show
IsPositiveFinite(f) == f.kind = "finite" /\ ~f.neg

\* lag l scores above 0.9 and above the score of lag l-1
Qualifying(b, s, l) ==
  /\ l >= 1
  /\ 10 * s[l + 1] > 9 * ScoreOne(b)
  /\ s[l + 1] > s[l]

QualifyingLags(b, s) == {l \in Lags(b) : Qualifying(b, s, l)}

Least(S) == CHOOSE l \in S : \A k \in S : l <= k

\* lags after the first qualifying one whose score does not exceed the
\* score of the lag before
RegionEnds(b, s) ==
  LET q == Least(QualifyingLags(b, s))
  IN  {l \in Lags(b) : l > q /\ s[l + 1] <= s[l]}

\* the lags of the first region and the best-scoring one among them
FirstRegion(b, s) ==
  LET q == Least(QualifyingLags(b, s))
      ends == RegionEnds(b, s)
  IN  {l \in Lags(b) : l >= q /\ (ends # {} => l < Least(ends))}

BestOf(S, s) == CHOOSE l \in S : \A k \in S : s[k + 1] <= s[l + 1]

HasRegion(b) == QualifyingLags(b, AllScores(b)) # {}

HasRegionEnd(b) ==
  LET s == AllScores(b)
  IN  QualifyingLags(b, s) # {} /\ RegionEnds(b, s) # {}

FirstQualifying(b) == Least(QualifyingLags(b, AllScores(b)))

RegionEnd(b) == Least(RegionEnds(b, AllScores(b)))

BestOfFirstRegion(b) ==
  LET s == AllScores(b) IN BestOf(FirstRegion(b, s), s)

\* rms < 0.02, on the samples themselves: mean square < 0.0004
QuietFrame(b) ==
  Len(b) > 0 /\ 10000 * SumSquares(b, 1) < 4 * Scale * Scale * Len(b)

Malformed(b) == Len(b) = 0 \/ Len(b) % 2 = 1

Analyzed == acPc = "done"

-----------------------------------------------------------------------------
(* Claims about autoCorrelate, checked under SpecAC                        *)

\* C6: every frame whose RMS is below NOISE_THRESHOLD (0.02), the all-zero
\* frame included, is answered NoPitch before any lag is scanned, whatever
\* periodic content it has.
C6_QuietFrameGated ==
  (Analyzed /\ QuietFrame(buf)) =>
     (acOut.result = NoPitch /\ acOut.scanned = 0 /\ acOut.exit = "gate")

\* C6 witness: a quiet frame with periodic content: without the gate the
\* scan would have found a region and returned a frequency.
C6_Witness ==
  /\ Analyzed /\ QuietFrame(buf)
  /\ \E i \in 1..Len(buf) : buf[i] # 0
  /\ ScanOffsets(buf, sampleRate, 0, ScanStart(buf)).exit = "refined"

\* C7 (the claim as stated): an odd-length or empty frame is answered with
\* an explicit InvalidInput outcome, never with NoPitch or a frequency.
C7_MalformedRejected ==
  (Analyzed /\ Malformed(buf)) => acOut.exit = "invalid"

\* C8: once a lag qualifies (score above 0.9 and above the previous lag's),
\* the search ends at the first later lag whose score does not exceed its
\* predecessor's, and the result is computed from the best-scoring lag of
\* that first region: never lag 0, never a later lag.
C8_FirstRegionWins ==
  (Analyzed /\ acOut.exit # "gate") =>
    LET s == AllScores(buf)
        q == QualifyingLags(buf, s)
        ends == RegionEnds(buf, s)
        best == BestOf(FirstRegion(buf, s), s)
    IN  (q # {} /\ ends # {}) =>
          /\ acOut.exit = "refined"
          /\ acOut.scanned = Least(ends) + 1
          /\ acOut.st.bestOffset = best
          /\ acOut.st.bestOffset # 0
          /\ acOut.st.bestOffset < Least(ends)
          /\ acOut.result = Refine(sampleRate, StoredScores(buf), best)

\* C8 witness: the first region has ended and a lag after it scores higher
\* than the region's best lag.
C8_Witness ==
  /\ Analyzed /\ acOut.exit = "refined" /\ HasRegionEnd(buf)
  /\ \E l \in Lags(buf) :
        /\ l > RegionEnd(buf)
        /\ Score(buf, l) > Score(buf, acOut.st.bestOffset)

\* C9: when no lag ever qualified and some lag's score
\* exceeds 0.01, the unrefined frequency is returned, not NoPitch.
C9_FallbackWithoutRegion ==
  (/\ Analyzed /\ acOut.exit # "gate" /\ ~HasRegion(buf)
   /\ \E l \in Lags(buf) : l >= 1 /\ 100 * Score(buf, l) > ScoreOne(buf))
  => (acOut.exit = "fallback" /\ acOut.result # NoPitch)

\* C10 (the claim as stated): every value returned other than NoPitch is a
\* positive finite frequency.
C10_PositiveFinite ==
  (Analyzed /\ acOut.result # NoPitch) => IsPositiveFinite(acOut.result)

-----------------------------------------------------------------------------
(* Reference notions for the claims about the pitch history                *)

\* the detected frequencies among the estimates seen since the last reset
Detections(estimates) == SelectSeq(estimates, LAMBDA e : e # NoPitch)

LastN(seq, n) == SubSeq(seq, Len(seq) - n + 1, Len(seq))

Min(a, b) == IF a < b THEN a ELSE b

LessOrEqual(a, b) == Less(a, b) \/ (a = b /\ a.kind # "nan")

\* the k-th smallest entry of a sequence of frequencies
KthSmallest(seq, k) ==
  CHOOSE x \in {seq[i] : i \in 1..Len(seq)} :
    /\ Cardinality({i \in 1..Len(seq) : Less(seq[i], x)}) < k
    /\ Cardinality({i \in 1..Len(seq) : LessOrEqual(seq[i], x)}) >= k

\* the textbook median: the middle entry, or the mean of the two middle ones
ReferenceMedian(seq) ==
  LET n == Len(seq) IN
  IF n % 2 = 1 THEN KthSmallest(seq, (n + 1) \div 2)
  ELSE LET lo == KthSmallest(seq, n \div 2)
           hi == KthSmallest(seq, (n \div 2) + 1)
       IN  Scaled(Plus(lo, hi), -1)

\* a tracker constructed afresh (lines 7-8) and fed the estimates in turn
RECURSIVE FreshTracker(_)
FreshTracker(estimates) ==
  IF estimates = <<>>
  THEN [ac |-> NoPitch, pitchBuffer |-> <<>>, lastValidPitch |-> Zero,
        pitch |-> Zero]
  ELSE LET before == FreshTracker(SubSeq(estimates, 1, Len(estimates) - 1))
           ac == estimates[Len(estimates)]
       IN  TrackEstimate(before.pitchBuffer, before.lastValidPitch,
                         ac # NoPitch, ac)

-----------------------------------------------------------------------------
(* Claims about the pitch history, checked under Spec                      *)

\* C1: the pitch history never holds more than BUFFER_SIZE entries, and it
\* is exactly the most recent min(BUFFER_SIZE, n) of the n frequencies
\* detected since the last reset, in arrival order (the oldest is evicted).
C1_HistoryIsRecentWindow ==
  LET d == Detections(fed)
  IN  /\ Len(tunerState.pitchBuffer) <= BUFFER_SIZE
      /\ tunerState.pitchBuffer = LastN(d, Min(BUFFER_SIZE, Len(d)))

\* C1 witness: more than BUFFER_SIZE frequencies were detected and the
\* newest differs from the one before it, which has been evicted.
C1_Witness ==
  LET d == Detections(fed)
  IN  /\ Len(d) > BUFFER_SIZE
      /\ d[Len(d)] # d[Len(d) - 1]
      /\ tunerState.pitchBuffer = <<d[Len(d)]>>

\* C2: an updatePitch whose frame yields NoPitch leaves the pitch history and
\* lastValidPitch as they were.
C2_NoPitchLeavesHistory ==
  [][(Len(fed') = Len(fed) + 1 /\ fed'[Len(fed')] = NoPitch) =>
       /\ tunerState'.pitchBuffer = tunerState.pitchBuffer
       /\ tunerState'.lastValidPitch = tunerState.lastValidPitch]_vars

\* C2 witness: a NoPitch frame arrived after a frequency had been detected.
C2_Witness ==
  /\ Len(fed) >= 2
  /\ fed[Len(fed)] = NoPitch
  /\ fed[Len(fed) - 1] # NoPitch
  /\ tunerState.pitchBuffer = <<fed[Len(fed) - 1]>>
  /\ tunerState.lastValidPitch = fed[Len(fed) - 1]

\* C3: after every updatePitch the smoothed pitch is the reference median of
\* the history when the history is not empty, and lastValidPitch (0 if never
\* set) when it is.
C3_SmoothedIsMedian ==
  fed # <<>> =>
    pitch = IF tunerState.pitchBuffer # <<>>
            THEN ReferenceMedian(tunerState.pitchBuffer)
            ELSE tunerState.lastValidPitch

\* C3 witness: an updatePitch found the history empty and lastValidPitch
\* set, and read lastValidPitch as the smoothed pitch.
C3_Witness ==
  /\ fed # <<>>
  /\ tunerState.pitchBuffer = <<>>
  /\ tunerState.lastValidPitch # Zero
  /\ pitch = tunerState.lastValidPitch

\* C4 (the claim as stated): in a run of equal detected frequencies with one
\* isolated different value after at least three of them, the smoothed pitch
\* on the outlier frame and on every later frame is the run's frequency.
C4_OutlierRejected ==
  LET d == Detections(fed)
  IN  (/\ Len(d) >= 4
       /\ d[2] = d[1] /\ d[3] = d[1] /\ d[4] # d[1]
       /\ \A i \in 5..Len(d) : d[i] = d[1])
      => pitch = d[1]

\* C5 (the claim as stated): after a reset the smoothed pitch of every
\* updatePitch is the one a freshly constructed tracker yields on the same
\* estimates; a NoPitch frame right after a reset yields 0.
C5_ResetLeavesNoResidue ==
  fed # <<>> => pitch = FreshTracker(fed).pitch

-----------------------------------------------------------------------------
(* Claims about the life cycle, checked under Spec                         *)

\* every resource of a session is released and the tracker is reset
Released ==
  /\ rafPending = {}
  /\ tunerState.animationId = 0
  /\ ~tunerState.currentStream
  /\ ~tunerState.mediaStreamSource
  /\ ~tunerState.gainNode
  /\ ~tunerState.analyser
  /\ tunerState.audioContext = NullContext
  /\ ~tunerState.isRunning
  /\ tunerState.pitchBuffer = <<>>

\* C11: there is never more than one pending updatePitch animation-frame
\* callback, and tunerState.animationId identifies the only pending one.
C11_SingleTickLoop ==
  /\ Cardinality(rafPending) <= 1
  /\ rafPending # {} => rafPending = {tunerState.animationId}

\* C11 witness: a second session, started after the first was stopped, has
\* run its tick loop for two frames and exactly its callback is pending.
C11_Witness ==
  /\ ended = "started"
  /\ rafPending = {tunerState.animationId}
  /\ Len(fed) >= 2
  /\ tunerState.lastValidPitch # Zero
  /\ tunerState.pitchBuffer = <<>>

\* C12 (the claim as stated): once a cleanup started by a click in the
\* running state has finished, nothing of the session is left.
C12_StopLeavesNothing ==
  ended = "stopped" => Released

\* C18 (the claim as stated): whenever a cleanup has returned and left the
\* button at 'Start', isRunning is false.
C18_StoppedMeansNotRunning ==
  (ended \in {"stopped", "failed"} /\ button = "stopped")
    => ~tunerState.isRunning

\* C19: a start that failed ends with the button at 'Start', isRunning
\* false, no pending animation frame and every resource null.
C19_FailedStartRolledBack ==
  ended = "failed" => (Released /\ button = "stopped")

\* C19 witness: a start failed after its audio context had been created
\* (resume or getUserMedia was refused), in a session after a first one
\* had run.
C19_Witness ==
  /\ ended = "failed" /\ compatible
  /\ tunerState.lastValidPitch # Zero
  /\ Released /\ button = "stopped"

-----------------------------------------------------------------------------
(* Claims about what a tick shows, checked under Spec                      *)

\* the step is an updatePitch call: one more estimate has been seen
Ticked == Len(fed') = Len(fed) + 1

\* C13: every updatePitch shows exactly one of a reading and the no-pitch
\* marker, the marker exactly when the smoothed pitch is 0.
C13_ReadingOrMarker ==
  [][Ticked =>
       /\ display' \in {"reading", "marker"}
       /\ display' = "marker" <=> pitch' = Zero]_vars

\* C20: once a frame has been detected the history is not empty again until
\* cleanup; every later updatePitch, however many frames without pitch
\* follow, shows a reading of the median of the history, never the marker.
C20_ReadingLatches ==
  [][(Ticked /\ Detections(fed') # <<>>) =>
       /\ tunerState'.pitchBuffer # <<>>
       /\ pitch' = ReferenceMedian(tunerState'.pitchBuffer)
       /\ display' = "reading"]_vars

-----------------------------------------------------------------------------
(* The note functions, lines 112-119, and the label of a reading, lines    *)
(* 192-204.  A frequency is a positive double <<hi, mid, lo, e>> that      *)
(* stands for (hi * 2^36 + mid * 2^18 + lo) * 2^e, its 53-bit mantissa cut *)
(* into limbs of 18 bits with 2^16 <= hi < 2^17.  Products and quotients   *)
(* are rounded to the nearest double, ties to the even mantissa, as the    *)
(* arithmetic of the page rounds them.  Math.pow, Math.log and Math.log2   *)
(* are tabulated: the tables hold the doubles that the library functions   *)
(* of the engine return (its port of fdlibm, whose pow ends with the       *)
(* quotient z * t1 / ((t1 - 2) - (w + z * w))) or, for the logarithms, the *)
(* doubles at which the value computed from them passes a whole number.    *)

A4 == 440
A4Note == 69
\* Math.pow(2, k / 12) for k = -120 .. 82, line 118
PowTable ==
  << <<65536, 0, 0, -62>>,
     <<69432, 255158, 96613, -62>>,
     <<73561, 176369, 251582, -62>>,
     <<77935, 230028, 112405, -62>>,
     <<82570, 48739, 94861, -62>>,
     <<87480, 16956, 60508, -62>>,
     <<92681, 235935, 211916, -62>>,
     <<98193, 13786, 53170, -62>>,
     <<104031, 239951, 93754, -62>>,
     <<110217, 255574, 185262, -62>>,
     <<116771, 229843, 180525, -62>>,
     <<123715, 129476, 4928, -62>>,
     <<65536, 0, 0, -61>>,
     <<69432, 255158, 96613, -61>>,
     <<73561, 176369, 251582, -61>>,
     <<77935, 230028, 112405, -61>>,
     <<82570, 48739, 94861, -61>>,
     <<87480, 16956, 60508, -61>>,
     <<92681, 235935, 211916, -61>>,
     <<98193, 13786, 53170, -61>>,
     <<104031, 239951, 93754, -61>>,
     <<110217, 255574, 185262, -61>>,
     <<116771, 229843, 180525, -61>>,
     <<123715, 129476, 4928, -61>>,
     <<65536, 0, 0, -60>>,
     <<69432, 255158, 96610, -60>>,
     <<73561, 176369, 251585, -60>>,
     <<77935, 230028, 112405, -60>>,
     <<82570, 48739, 94858, -60>>,
     <<87480, 16956, 60511, -60>>,
     <<92681, 235935, 211916, -60>>,
     <<98193, 13786, 53166, -60>>,
     <<104031, 239951, 93758, -60>>,
     <<110217, 255574, 185262, -60>>,
     <<116771, 229843, 180520, -60>>,
     <<123715, 129476, 4933, -60>>,
     <<65536, 0, 0, -59>>,
     <<69432, 255158, 96610, -59>>,
     <<73561, 176369, 251585, -59>>,
     <<77935, 230028, 112405, -59>>,
     <<82570, 48739, 94858, -59>>,
     <<87480, 16956, 60511, -59>>,
     <<92681, 235935, 211916, -59>>,
     <<98193, 13786, 53166, -59>>,
     <<104031, 239951, 93758, -59>>,
     <<110217, 255574, 185262, -59>>,
     <<116771, 229843, 180520, -59>>,
     <<123715, 129476, 4933, -59>>,
     <<65536, 0, 0, -58>>,
     <<69432, 255158, 96610, -58>>,
     <<73561, 176369, 251585, -58>>,
     <<77935, 230028, 112405, -58>>,
     <<82570, 48739, 94858, -58>>,
     <<87480, 16956, 60511, -58>>,
     <<92681, 235935, 211916, -58>>,
     <<98193, 13786, 53166, -58>>,
     <<104031, 239951, 93758, -58>>,
     <<110217, 255574, 185262, -58>>,
     <<116771, 229843, 180520, -58>>,
     <<123715, 129476, 4933, -58>>,
     <<65536, 0, 0, -57>>,
     <<69432, 255158, 96610, -57>>,
     <<73561, 176369, 251585, -57>>,
     <<77935, 230028, 112405, -57>>,
     <<82570, 48739, 94858, -57>>,
     <<87480, 16956, 60511, -57>>,
     <<92681, 235935, 211916, -57>>,
     <<98193, 13786, 53166, -57>>,
     <<104031, 239951, 93758, -57>>,
     <<110217, 255574, 185262, -57>>,
     <<116771, 229843, 180520, -57>>,
     <<123715, 129476, 4933, -57>>,
     <<65536, 0, 0, -56>>,
     <<69432, 255158, 96611, -56>>,
     <<73561, 176369, 251583, -56>>,
     <<77935, 230028, 112405, -56>>,
     <<82570, 48739, 94860, -56>>,
     <<87480, 16956, 60509, -56>>,
     <<92681, 235935, 211916, -56>>,
     <<98193, 13786, 53168, -56>>,
     <<104031, 239951, 93756, -56>>,
     <<110217, 255574, 185262, -56>>,
     <<116771, 229843, 180522, -56>>,
     <<123715, 129476, 4931, -56>>,
     <<65536, 0, 0, -55>>,
     <<69432, 255158, 96611, -55>>,
     <<73561, 176369, 251583, -55>>,
     <<77935, 230028, 112405, -55>>,
     <<82570, 48739, 94860, -55>>,
     <<87480, 16956, 60509, -55>>,
     <<92681, 235935, 211916, -55>>,
     <<98193, 13786, 53168, -55>>,
     <<104031, 239951, 93756, -55>>,
     <<110217, 255574, 185262, -55>>,
     <<116771, 229843, 180522, -55>>,
     <<123715, 129476, 4931, -55>>,
     <<65536, 0, 0, -54>>,
     <<69432, 255158, 96611, -54>>,
     <<73561, 176369, 251584, -54>>,
     <<77935, 230028, 112405, -54>>,
     <<82570, 48739, 94859, -54>>,
     <<87480, 16956, 60510, -54>>,
     <<92681, 235935, 211916, -54>>,
     <<98193, 13786, 53168, -54>>,
     <<104031, 239951, 93757, -54>>,
     <<110217, 255574, 185262, -54>>,
     <<116771, 229843, 180521, -54>>,
     <<123715, 129476, 4932, -54>>,
     <<65536, 0, 0, -53>>,
     <<69432, 255158, 96611, -53>>,
     <<73561, 176369, 251584, -53>>,
     <<77935, 230028, 112405, -53>>,
     <<82570, 48739, 94859, -53>>,
     <<87480, 16956, 60510, -53>>,
     <<92681, 235935, 211916, -53>>,
     <<98193, 13786, 53168, -53>>,
     <<104031, 239951, 93757, -53>>,
     <<110217, 255574, 185262, -53>>,
     <<116771, 229843, 180521, -53>>,
     <<123715, 129476, 4932, -53>>,
     <<65536, 0, 0, -52>>,
     <<69432, 255158, 96611, -52>>,
     <<73561, 176369, 251584, -52>>,
     <<77935, 230028, 112405, -52>>,
     <<82570, 48739, 94859, -52>>,
     <<87480, 16956, 60510, -52>>,
     <<92681, 235935, 211917, -52>>,
     <<98193, 13786, 53168, -52>>,
     <<104031, 239951, 93756, -52>>,
     <<110217, 255574, 185262, -52>>,
     <<116771, 229843, 180522, -52>>,
     <<123715, 129476, 4932, -52>>,
     <<65536, 0, 0, -51>>,
     <<69432, 255158, 96611, -51>>,
     <<73561, 176369, 251584, -51>>,
     <<77935, 230028, 112405, -51>>,
     <<82570, 48739, 94859, -51>>,
     <<87480, 16956, 60510, -51>>,
     <<92681, 235935, 211916, -51>>,
     <<98193, 13786, 53168, -51>>,
     <<104031, 239951, 93757, -51>>,
     <<110217, 255574, 185262, -51>>,
     <<116771, 229843, 180521, -51>>,
     <<123715, 129476, 4932, -51>>,
     <<65536, 0, 0, -50>>,
     <<69432, 255158, 96611, -50>>,
     <<73561, 176369, 251583, -50>>,
     <<77935, 230028, 112405, -50>>,
     <<82570, 48739, 94860, -50>>,
     <<87480, 16956, 60509, -50>>,
     <<92681, 235935, 211916, -50>>,
     <<98193, 13786, 53168, -50>>,
     <<104031, 239951, 93756, -50>>,
     <<110217, 255574, 185262, -50>>,
     <<116771, 229843, 180522, -50>>,
     <<123715, 129476, 4931, -50>>,
     <<65536, 0, 0, -49>>,
     <<69432, 255158, 96611, -49>>,
     <<73561, 176369, 251583, -49>>,
     <<77935, 230028, 112405, -49>>,
     <<82570, 48739, 94860, -49>>,
     <<87480, 16956, 60509, -49>>,
     <<92681, 235935, 211916, -49>>,
     <<98193, 13786, 53168, -49>>,
     <<104031, 239951, 93756, -49>>,
     <<110217, 255574, 185262, -49>>,
     <<116771, 229843, 180522, -49>>,
     <<123715, 129476, 4931, -49>>,
     <<65536, 0, 0, -48>>,
     <<69432, 255158, 96610, -48>>,
     <<73561, 176369, 251585, -48>>,
     <<77935, 230028, 112405, -48>>,
     <<82570, 48739, 94858, -48>>,
     <<87480, 16956, 60511, -48>>,
     <<92681, 235935, 211916, -48>>,
     <<98193, 13786, 53166, -48>>,
     <<104031, 239951, 93758, -48>>,
     <<110217, 255574, 185262, -48>>,
     <<116771, 229843, 180520, -48>>,
     <<123715, 129476, 4933, -48>>,
     <<65536, 0, 0, -47>>,
     <<69432, 255158, 96610, -47>>,
     <<73561, 176369, 251585, -47>>,
     <<77935, 230028, 112405, -47>>,
     <<82570, 48739, 94858, -47>>,
     <<87480, 16956, 60511, -47>>,
     <<92681, 235935, 211916, -47>>,
     <<98193, 13786, 53166, -47>>,
     <<104031, 239951, 93758, -47>>,
     <<110217, 255574, 185262, -47>>,
     <<116771, 229843, 180520, -47>>,
     <<123715, 129476, 4933, -47>>,
     <<65536, 0, 0, -46>>,
     <<69432, 255158, 96610, -46>>,
     <<73561, 176369, 251585, -46>>,
     <<77935, 230028, 112405, -46>>,
     <<82570, 48739, 94858, -46>>,
     <<87480, 16956, 60511, -46>>,
     <<92681, 235935, 211916, -46>>,
     <<98193, 13786, 53166, -46>>,
     <<104031, 239951, 93758, -46>>,
     <<110217, 255574, 185262, -46>>,
     <<116771, 229843, 180520, -46>> >>

\* for j = -121 .. 82 the least frequency that lines 113-114 take to j + 1 or
\* more, Math.round(12 * (Math.log(frequency / 440) / Math.log(2)))
RoundingTable ==
  << <<109433, 93808, 166378, -54>>,
     <<115940, 158318, 19325, -54>>,
     <<122834, 207357, 222217, -54>>,
     <<130138, 243210, 217901, -54>>,
     <<68938, 182336, 156510, -53>>,
     <<73038, 974, 166967, -53>>,
     <<77381, 18199, 79995, -53>>,
     <<81982, 101517, 72127, -53>>,
     <<86857, 82231, 41532, -53>>,
     <<92022, 31018, 155235, -53>>,
     <<97494, 10022, 57442, -53>>,
     <<103291, 87930, 16737, -53>>,
     <<109433, 93808, 166372, -53>>,
     <<115940, 158318, 19318, -53>>,
     <<122834, 207357, 222219, -53>>,
     <<130138, 243210, 217901, -53>>,
     <<68938, 182336, 156510, -52>>,
     <<73038, 974, 166967, -52>>,
     <<77381, 18199, 79991, -52>>,
     <<81982, 101517, 72128, -52>>,
     <<86857, 82231, 41532, -52>>,
     <<92022, 31018, 155235, -52>>,
     <<97494, 10022, 57442, -52>>,
     <<103291, 87930, 16738, -52>>,
     <<109433, 93808, 166373, -52>>,
     <<115940, 158318, 19325, -52>>,
     <<122834, 207357, 222219, -52>>,
     <<130138, 243210, 217894, -52>>,
     <<68938, 182336, 156510, -51>>,
     <<73038, 974, 166968, -51>>,
     <<77381, 18199, 79991, -51>>,
     <<81982, 101517, 72133, -51>>,
     <<86857, 82231, 41533, -51>>,
     <<92022, 31018, 155231, -51>>,
     <<97494, 10022, 57443, -51>>,
     <<103291, 87930, 16738, -51>>,
     <<109433, 93808, 166373, -51>>,
     <<115940, 158318, 19320, -51>>,
     <<122834, 207357, 222221, -51>>,
     <<130138, 243210, 217894, -51>>,
     <<68938, 182336, 156510, -50>>,
     <<73038, 974, 166968, -50>>,
     <<77381, 18199, 79992, -50>>,
     <<81982, 101517, 72129, -50>>,
     <<86857, 82231, 41533, -50>>,
     <<92022, 31018, 155231, -50>>,
     <<97494, 10022, 57444, -50>>,
     <<103291, 87930, 16738, -50>>,
     <<109433, 93808, 166374, -50>>,
     <<115940, 158318, 19320, -50>>,
     <<122834, 207357, 222221, -50>>,
     <<130138, 243210, 217895, -50>>,
     <<68938, 182336, 156510, -49>>,
     <<73038, 974, 166970, -49>>,
     <<77381, 18199, 79992, -49>>,
     <<81982, 101517, 72130, -49>>,
     <<86857, 82231, 41533, -49>>,
     <<92022, 31018, 155232, -49>>,
     <<97494, 10022, 57446, -49>>,
     <<103291, 87930, 16741, -49>>,
     <<109433, 93808, 166373, -49>>,
     <<115940, 158318, 19327, -49>>,
     <<122834, 207357, 222219, -49>>,
     <<130138, 243210, 217897, -49>>,
     <<68938, 182336, 156512, -48>>,
     <<73038, 974, 166968, -48>>,
     <<77381, 18199, 79992, -48>>,
     <<81982, 101517, 72133, -48>>,
     <<86857, 82231, 41531, -48>>,
     <<92022, 31018, 155233, -48>>,
     <<97494, 10022, 57446, -48>>,
     <<103291, 87930, 16738, -48>>,
     <<109433, 93808, 166374, -48>>,
     <<115940, 158318, 19327, -48>>,
     <<122834, 207357, 222221, -48>>,
     <<130138, 243210, 217899, -48>>,
     <<68938, 182336, 156513, -47>>,
     <<73038, 974, 166970, -47>>,
     <<77381, 18199, 79992, -47>>,
     <<81982, 101517, 72134, -47>>,
     <<86857, 82231, 41531, -47>>,
     <<92022, 31018, 155234, -47>>,
     <<97494, 10022, 57447, -47>>,
     <<103291, 87930, 16738, -47>>,
     <<109433, 93808, 166375, -47>>,
     <<115940, 158318, 19323, -47>>,
     <<122834, 207357, 222219, -47>>,
     <<130138, 243210, 217899, -47>>,
     <<68938, 182336, 156512, -46>>,
     <<73038, 974, 166970, -46>>,
     <<77381, 18199, 79992, -46>>,
     <<81982, 101517, 72132, -46>>,
     <<86857, 82231, 41532, -46>>,
     <<92022, 31018, 155235, -46>>,
     <<97494, 10022, 57445, -46>>,
     <<103291, 87930, 16740, -46>>,
     <<109433, 93808, 166376, -46>>,
     <<115940, 158318, 19325, -46>>,
     <<122834, 207357, 222219, -46>>,
     <<130138, 243210, 217899, -46>>,
     <<68938, 182336, 156512, -45>>,
     <<73038, 974, 166970, -45>>,
     <<77381, 18199, 79992, -45>>,
     <<81982, 101517, 72133, -45>>,
     <<86857, 82231, 41533, -45>>,
     <<92022, 31018, 155234, -45>>,
     <<97494, 10022, 57447, -45>>,
     <<103291, 87930, 16740, -45>>,
     <<109433, 93808, 166375, -45>>,
     <<115940, 158318, 19327, -45>>,
     <<122834, 207357, 222219, -45>>,
     <<130138, 243210, 217899, -45>>,
     <<68938, 182336, 156513, -44>>,
     <<73038, 974, 166970, -44>>,
     <<77381, 18199, 79993, -44>>,
     <<81982, 101517, 72134, -44>>,
     <<86857, 82231, 41533, -44>>,
     <<92022, 31018, 155235, -44>>,
     <<97494, 10022, 57447, -44>>,
     <<103291, 87930, 16741, -44>>,
     <<109433, 93808, 166376, -44>>,
     <<115940, 158318, 19327, -44>>,
     <<122834, 207357, 222219, -44>>,
     <<130138, 243210, 217901, -44>>,
     <<68938, 182336, 156513, -43>>,
     <<73038, 974, 166970, -43>>,
     <<77381, 18199, 79992, -43>>,
     <<81982, 101517, 72133, -43>>,
     <<86857, 82231, 41533, -43>>,
     <<92022, 31018, 155234, -43>>,
     <<97494, 10022, 57446, -43>>,
     <<103291, 87930, 16740, -43>>,
     <<109433, 93808, 166374, -43>>,
     <<115940, 158318, 19327, -43>>,
     <<122834, 207357, 222219, -43>>,
     <<130138, 243210, 217899, -43>>,
     <<68938, 182336, 156513, -42>>,
     <<73038, 974, 166970, -42>>,
     <<77381, 18199, 79992, -42>>,
     <<81982, 101517, 72133, -42>>,
     <<86857, 82231, 41531, -42>>,
     <<92022, 31018, 155233, -42>>,
     <<97494, 10022, 57444, -42>>,
     <<103291, 87930, 16739, -42>>,
     <<109433, 93808, 166374, -42>>,
     <<115940, 158318, 19325, -42>>,
     <<122834, 207357, 222219, -42>>,
     <<130138, 243210, 217899, -42>>,
     <<68938, 182336, 156511, -41>>,
     <<73038, 974, 166970, -41>>,
     <<77381, 18199, 79992, -41>>,
     <<81982, 101517, 72132, -41>>,
     <<86857, 82231, 41531, -41>>,
     <<92022, 31018, 155232, -41>>,
     <<97494, 10022, 57445, -41>>,
     <<103291, 87930, 16738, -41>>,
     <<109433, 93808, 166371, -41>>,
     <<115940, 158318, 19325, -41>>,
     <<122834, 207357, 222219, -41>>,
     <<130138, 243210, 217895, -41>>,
     <<68938, 182336, 156511, -40>>,
     <<73038, 974, 166970, -40>>,
     <<77381, 18199, 79991, -40>>,
     <<81982, 101517, 72132, -40>>,
     <<86857, 82231, 41532, -40>>,
     <<92022, 31018, 155232, -40>>,
     <<97494, 10022, 57445, -40>>,
     <<103291, 87930, 16740, -40>>,
     <<109433, 93808, 166372, -40>>,
     <<115940, 158318, 19325, -40>>,
     <<122834, 207357, 222216, -40>>,
     <<130138, 243210, 217894, -40>>,
     <<68938, 182336, 156512, -39>>,
     <<73038, 974, 166968, -39>>,
     <<77381, 18199, 79988, -39>>,
     <<81982, 101517, 72133, -39>>,
     <<86857, 82231, 41530, -39>>,
     <<92022, 31018, 155230, -39>>,
     <<97494, 10022, 57446, -39>>,
     <<103291, 87930, 16738, -39>>,
     <<109433, 93808, 166370, -39>>,
     <<115940, 158318, 19327, -39>>,
     <<122834, 207357, 222216, -39>>,
     <<130138, 243210, 217894, -39>>,
     <<68938, 182336, 156512, -38>>,
     <<73038, 974, 166968, -38>>,
     <<77381, 18199, 79989, -38>>,
     <<81982, 101517, 72129, -38>>,
     <<86857, 82231, 41531, -38>>,
     <<92022, 31018, 155231, -38>>,
     <<97494, 10022, 57439, -38>>,
     <<103291, 87930, 16739, -38>>,
     <<109433, 93808, 166369, -38>>,
     <<115940, 158318, 19322, -38>>,
     <<122834, 207357, 222216, -38>>,
     <<130138, 243210, 217897, -38>>,
     <<68938, 182336, 156508, -37>>,
     <<73038, 974, 166970, -37>>,
     <<77381, 18199, 79988, -37>>,
     <<81982, 101517, 72130, -37>>,
     <<86857, 82231, 41530, -37>>,
     <<92022, 31018, 155232, -37>>,
     <<97494, 10022, 57440, -37>>,
     <<103291, 87930, 16740, -37>> >>

\* for c = 0 .. 50 the least quotient q with 1200 * Math.log2(q) > c, line 196
CentsAboveTable ==
  << <<65536, 0, 1, -52>>,
     <<65573, 227020, 36308, -52>>,
     <<65611, 197631, 161689, -52>>,
     <<65649, 173981, 196267, -52>>,
     <<65687, 156073, 222810, -52>>,
     <<65725, 143911, 62442, -52>>,
     <<65763, 137497, 61081, -52>>,
     <<65801, 136835, 40858, -52>>,
     <<65839, 141928, 86551, -52>>,
     <<65877, 152780, 21298, -52>>,
     <<65915, 169393, 193028, -52>>,
     <<65953, 191772, 163743, -52>>,
     <<65991, 219920, 20236, -52>>,
     <<66029, 253839, 111949, -52>>,
     <<66068, 31390, 2398, -52>>,
     <<66106, 76863, 42034, -52>>,
     <<66144, 128118, 57526, -52>>,
     <<66182, 185158, 138195, -52>>,
     <<66220, 247987, 111721, -52>>,
     <<66259, 54464, 68435, -52>>,
     <<66297, 128880, 99176, -52>>,
     <<66335, 209095, 33145, -52>>,
     <<66374, 32967, 224338, -52>>,
     <<66412, 124789, 240827, -52>>,
     <<66450, 222420, 175478, -52>>,
     <<66489, 63719, 121667, -52>>,
     <<66527, 172977, 173278, -52>>,
     <<66566, 25910, 162560, -52>>,
     <<66604, 146809, 184413, -52>>,
     <<66643, 11390, 72104, -52>>,
     <<66681, 143943, 183698, -52>>,
     <<66720, 20185, 91336, -52>>,
     <<66758, 164406, 154101, -52>>,
     <<66797, 52322, 207301, -52>>,
     <<66835, 208225, 86753, -52>>,
     <<66874, 107829, 153072, -52>>,
     <<66913, 13282, 243098, -52>>,
     <<66951, 186732, 194182, -52>>,
     <<66990, 103894, 106331, -52>>,
     <<67029, 26915, 80063, -52>>,
     <<67067, 217942, 216410, -52>>,
     <<67106, 152692, 92629, -52>>,
     <<67145, 93311, 72920, -52>>,
     <<67184, 39802, 259855, -52>>,
     <<67222, 254314, 232230, -52>>,
     <<67261, 212562, 93642, -52>>,
     <<67300, 176692, 210349, -52>>,
     <<67339, 146709, 162689, -52>>,
     <<67378, 122616, 55804, -52>>,
     <<67417, 104415, 257496, -52>>,
     <<67456, 92112, 87505, -52>> >>

\* for c = 0 .. 50 the greatest quotient q with 1200 * Math.log2(q) < -c
CentsBelowTable ==
  << <<131071, 262143, 262143, -53>>,
     <<130996, 81711, 204150, -53>>,
     <<130920, 174880, 260397, -53>>,
     <<130845, 17357, 7214, -53>>,
     <<130769, 133421, 70514, -53>>,
     <<130693, 260923, 28631, -53>>,
     <<130618, 137711, 247331, -53>>,
     <<130543, 25925, 44806, -53>>,
     <<130467, 187700, 50967, -53>>,
     <<130392, 98742, 110291, -53>>,
     <<130317, 21189, 68252, -53>>,
     <<130241, 217178, 33467, -53>>,
     <<130166, 162414, 115549, -53>>,
     <<130091, 119035, 162965, -53>>,
     <<130016, 87035, 25176, -53>>,
     <<129941, 66406, 76926, -53>>,
     <<129866, 57142, 169667, -53>>,
     <<129791, 59237, 155844, -53>>,
     <<129716, 72684, 151041, -53>>,
     <<129641, 97477, 9689, -53>>,
     <<129566, 133608, 111499, -53>>,
     <<129491, 181072, 50745, -53>>,
     <<129416, 239861, 209120, -53>>,
     <<129342, 47826, 182879, -53>>,
     <<129267, 129248, 93553, -53>>,
     <<129192, 221976, 63663, -53>>,
     <<129118, 63859, 216720, -53>>,
     <<129043, 179180, 152932, -53>>,
     <<128969, 43643, 259931, -53>>,
     <<128894, 181531, 139902, -53>>,
     <<128820, 68548, 182449, -53>>,
     <<128745, 228976, 253872, -53>>,
     <<128671, 138521, 221460, -53>>,
     <<128597, 59320, 215629, -53>>,
     <<128522, 253511, 105635, -53>>,
     <<128448, 196799, 23863, -53>>,
     <<128374, 151321, 103680, -53>>,
     <<128300, 117071, 217292, -53>>,
     <<128226, 94043, 237887, -53>>,
     <<128152, 82231, 39635, -53>>,
     <<128078, 81627, 21975, -53>>,
     <<128004, 92225, 61037, -53>>,
     <<127930, 114019, 33932, -53>>,
     <<127856, 147002, 80894, -53>>,
     <<127782, 191168, 80992, -53>>,
     <<127708, 246510, 176416, -53>>,
     <<127635, 50878, 248191, -53>>,
     <<127561, 128554, 178317, -53>>,
     <<127487, 217387, 111916, -53>>,
     <<127414, 55226, 195086, -53>>,
     <<127340, 166354, 50612, -53>> >>

\* Math.pow(2, k / 12) for k = -120 .. 82
Pow2Twelfths(k) == PowTable[k + 121]

\* lines 117-119
frequencyFromNoteNumber(note) == TimesInteger(A4, Pow2Twelfths(note - A4Note))

\* Math.round takes 12 * (Math.log(frequency / 440) / Math.log(2)) to j + 1
\* or more from this frequency on and to j or less below it, j = -121 .. 82
RoundsUpFrom(j) == RoundingTable[j + 122]

\* Math.round(12 * (Math.log(frequency / 440) / Math.log(2))), lines
\* 113-114, for a frequency from RoundsUpFrom(-121) to below RoundsUpFrom(82)
RoundedSemitones(frequency) ==
  CHOOSE j \in (0 - 120)..82 :
    /\ DoubleLess(frequency, RoundsUpFrom(j))
    /\ ~DoubleLess(frequency, RoundsUpFrom(j - 1))

noteFromPitchOneUp(frequency) == RoundedSemitones(frequency) + A4Note + 1

\* lines 112-115
noteFromPitch(frequency) == RoundedSemitones(frequency) + A4Note

\* 1200 * Math.log2(pitch / idealFrequency), line 196, in whole cents
\* rounded away from zero (and no further than 51): the comparisons of
\* lines 199-200 with 3 and with 0 come out as for the double itself
Cents(freq, idealFrequency) ==
  LET q == Quotient(freq, idealFrequency)
      above == {c \in 1..Len(CentsAboveTable) :
                  ~DoubleLess(q, CentsAboveTable[c])}
      below == {c \in 1..Len(CentsBelowTable) :
                  ~DoubleLess(CentsBelowTable[c], q)}
  IN  Cardinality(above) - Cardinality(below)

DirectionLabelFromThree(cents) ==
  IF Abs(cents[1]) >= 3 * cents[2]
  THEN (IF cents[1] > 0 THEN " down" ELSE " up")
  ELSE " -"

\* lines 198-204 for cents = cents[1] / cents[2]; " down" and " up" stand
\* for the two arrow glyphs
DirectionLabel(cents) ==
  IF Abs(cents[1]) > 3 * cents[2]
  THEN (IF cents[1] > 0 THEN " down" ELSE " up")
  ELSE " -"

\* lines 192 and 195-204 of updatePitch for a positive pitch
Reading(freq) ==
  LET note == noteFromPitch(freq)
      idealFrequency == frequencyFromNoteNumber(note)
      cents == Cents(freq, idealFrequency)
  IN  [freq |-> freq, note |-> note, ideal |-> idealFrequency,
       cents |-> cents, direction |-> DirectionLabel(<<cents, 1>>)]

-----------------------------------------------------------------------------
(* SpecNote: the note functions applied to every note number of            *)
(* -LowNotes .. HighNotes, and the label of every cents value of           *)
(* -MaxCents .. MaxCents in quarter cents                                  *)

\* the note numbers run from -LowNotes to HighNotes
LowNotes == 50
HighNotes == 150
\* the cents values run from -MaxCents to MaxCents
MaxCents == 10

NoteNumbers == (0 - LowNotes)..HighNotes
CentsInputs == {<<c, 4>> : c \in (0 - 4 * MaxCents)..(4 * MaxCents)}

InitNote ==
  /\ \/ notePc = "note" /\ noteIn \in NoteNumbers /\ centsIn = <<0, 1>>
     \/ notePc = "cents" /\ noteIn = 0 /\ centsIn \in CentsInputs
  /\ noteOut = [freq |-> <<0, 0, 0, 0>>, note |-> 0,
                ideal |-> <<0, 0, 0, 0>>,
                cents |-> 0, direction |-> "none"]
  /\ IdleApp
  /\ IdleAC
  /\ IdleSW

\* the ideal frequency of a note number goes through lines 192-204
ReadNote ==
  /\ notePc = "note"
  /\ noteOut' = Reading(frequencyFromNoteNumber(noteIn))
  /\ notePc' = "noteDone"
  /\ UNCHANGED <<noteIn, centsIn>>
  /\ UNCHANGED <<appVars, acVars, swVars>>

\* a cents value goes through lines 198-204
LabelCents ==
  /\ notePc = "cents"
  /\ noteOut' = [noteOut EXCEPT !.direction = DirectionLabel(centsIn)]
  /\ notePc' = "centsDone"
  /\ UNCHANGED <<noteIn, centsIn>>
  /\ UNCHANGED <<appVars, acVars, swVars>>

NextNote == ReadNote \/ LabelCents

SpecNote == InitNote /\ [][NextNote]_vars

\* C14: the label of a reading is " -" exactly when |cents| <= 3, the
\* down arrow when cents > 3 and the up arrow when cents < -3; the values
\* +3 and -3 are labelled in tune.
C14_LabelFromCents ==
  notePc = "centsDone" =>
    LET num == centsIn[1]
        den == centsIn[2]
    IN  /\ noteOut.direction = " -" <=> (num <= 3 * den /\ 0 - num <= 3 * den)
        /\ num > 3 * den => noteOut.direction = " down"
        /\ 0 - num > 3 * den => noteOut.direction = " up"

C14_Witness ==
  /\ notePc = "centsDone"
  /\ centsIn = <<0 - 12, 4>>
  /\ noteOut.direction = " -"

\* C15: for every note number n of -50 .. 150 the note of the ideal
\* frequency of n is n, and that frequency is 0 cents from itself.
C15_RoundTrip ==
  notePc = "noteDone" =>
    /\ noteOut.note = noteIn
    /\ noteOut.ideal = noteOut.freq
    /\ noteOut.cents = 0

C15_Witness ==
  /\ notePc = "noteDone"
  /\ noteIn = 0 - LowNotes
  /\ noteOut.note = 0 - LowNotes
  /\ noteOut.cents = 0

-----------------------------------------------------------------------------
(* sw.js: the service worker.  Two deployments of the script share the     *)
(* origin's cache storage: the one of the repository, whose CACHE_VERSION  *)
(* is guitar-tuner-v2, and the deployment before it.  A cache name is the  *)
(* pair of its prefix and the rest, so that startsWith of line 28 is a     *)
(* test of the first component.  Every promise the handlers wait for       *)
(* settles in a step of its own.                                           *)

GuitarTuner == "guitar-tuner-"
CACHE_VERSION == <<GuitarTuner, "v2">>
PreviousVersion == <<GuitarTuner, "v1">>
Versions == {PreviousVersion, CACHE_VERSION}
\* a cache of the same origin that the worker did not make
ForeignCache == <<"fonts-", "v1">>

CACHE_FILES == {"/", "/index.html", "/style.css", "/script.js", "/icon512.png"}
Requests == CACHE_FILES \cup {"/favicon.ico"}
\* the requests of the page that the fetch events carry
FetchedRequests == {"/script.js", "/favicon.ico"}

\* fetch handlers that have not finished
MaxInFlight == 1

\* what the server sends: the content of the deployment before, or the
\* content of the deployment of CACHE_VERSION
Bodies == {"old", "new"}
Slots == 1..MaxInFlight

NoResponse == [kind |-> "none", status |-> 0, body |-> "none"]
NetworkError == [kind |-> "error", status |-> 0, body |-> "none"]
NotFound == [kind |-> "response", status |-> 404, body |-> "none"]
Ok(b) == [kind |-> "response", status |-> 200, body |-> b]
NetworkOutcomes == {Ok(b) : b \in Bodies} \cup {NotFound, NetworkError}

EmptyCache(name) ==
  [name |-> name, entries |-> [r \in Requests |-> NoResponse]]

HasCache(storage, name) ==
  \E i \in 1..Len(storage) : storage[i].name = name

\* caches.open(name) makes the cache when the storage has none of the name
CachesOpen(storage, name) ==
  IF HasCache(storage, name) THEN storage
  ELSE Append(storage, EmptyCache(name))

\* caches.delete(name) for each of the names
CachesDelete(storage, names) ==
  SelectSeq(storage, LAMBDA c : c.name \notin names)

\* cache.put(request, response) on the cache of the name
CachePut(storage, name, request, response) ==
  [i \in 1..Len(storage) |->
     IF storage[i].name = name
     THEN [storage[i] EXCEPT !.entries[request] = response]
     ELSE storage[i]]

\* cache.addAll(CACHE_FILES), every file fetched with status 200
CacheAddAll(storage, name, b) ==
  [i \in 1..Len(storage) |->
     IF storage[i].name = name
     THEN [storage[i] EXCEPT
             !.entries = [r \in Requests |->
                            IF r \in CACHE_FILES THEN Ok(b) ELSE @[r]]]
     ELSE storage[i]]

\* caches.match(request): the entry of the first cache, in creation order,
\* that holds the request
CachesMatch(storage, request) ==
  LET hits == {i \in 1..Len(storage) :
                 storage[i].entries[request] # NoResponse}
  IN  IF hits = {} THEN NoResponse
      ELSE storage[CHOOSE i \in hits : \A j \in hits : i <= j].entries[request]

\* line 28
IsOldCache(name, version) == name[1] = GuitarTuner /\ name # version

\* caches.keys() filtered by line 28
OldCaches(storage, version) ==
  {storage[i].name : i \in {j \in 1..Len(storage) :
                              IsOldCache(storage[j].name, version)}}

FreeSlot ==
  [stage |-> "free", worker |-> CACHE_VERSION, request |-> "/",
   cached |-> NoResponse, network |-> NoResponse, detached |-> FALSE]

NoAnswer ==
  [slot |-> 0, request |-> "/", copy |-> NoResponse, network |-> NoResponse,
   response |-> NoResponse, live |-> FALSE]

NoWorker == [state |-> "none", doomed |-> {}]

InitSW ==
  /\ cacheStorage = <<EmptyCache(ForeignCache)>>
  /\ workerState = [v \in Versions |-> NoWorker]
  /\ inFlight = [s \in Slots |-> FreeSlot]
  /\ answered = NoAnswer
  /\ IdleApp
  /\ IdleAC
  /\ IdleNote

RestSW == UNCHANGED <<appVars, acVars, noteVars>>

Other(v) == IF v = CACHE_VERSION THEN PreviousVersion ELSE CACHE_VERSION

\* a deployment is registered and its install event fires, lines 12-19;
\* the registration's jobs run one after the other, and the deployment of
\* CACHE_VERSION is the later one
Register ==
  \E v \in Versions :
    /\ workerState[v].state = "none"
    /\ workerState[Other(v)].state \in {"none", "activated", "redundant"}
    /\ v = PreviousVersion => workerState[CACHE_VERSION].state = "none"
    /\ workerState' = [workerState EXCEPT ![v].state = "installing"]
    /\ UNCHANGED <<cacheStorage, inFlight, answered>>
    /\ RestSW

\* caches.open(CACHE_VERSION) of line 15 resolves
InstallOpened ==
  \E v \in Versions :
    /\ workerState[v].state = "installing"
    /\ cacheStorage' = CachesOpen(cacheStorage, v)
    /\ workerState' = [workerState EXCEPT ![v].state = "adding"]
    /\ UNCHANGED <<inFlight, answered>>
    /\ RestSW

\* cache.addAll of line 15 settles: on success the worker is installed and,
\* skipWaiting of line 16 having been called, starts to activate in place of
\* the active worker; on failure the installation is given up
AddAllSettles ==
  \E v \in Versions :
    /\ workerState[v].state = "adding"
    /\ \/ \E b \in Bodies :
            /\ cacheStorage' = CacheAddAll(cacheStorage, v, b)
            /\ workerState' =
                 [w \in Versions |->
                    IF w = v THEN [workerState[w] EXCEPT !.state = "activating"]
                    ELSE IF workerState[w].state = "activated"
                         THEN [workerState[w] EXCEPT !.state = "redundant"]
                         ELSE workerState[w]]
       \/ /\ workerState' = [workerState EXCEPT ![v].state = "redundant"]
          /\ UNCHANGED cacheStorage
    /\ UNCHANGED <<inFlight, answered>>
    /\ RestSW

\* caches.keys() of line 25 resolves and lines 27-29 ask for the deletions
ActivateKeys ==
  \E v \in Versions :
    /\ workerState[v].state = "activating"
    /\ workerState' = [workerState EXCEPT
                         ![v] = [state |-> "deleting",
                                 doomed |-> OldCaches(cacheStorage, v)]]
    /\ UNCHANGED <<cacheStorage, inFlight, answered>>
    /\ RestSW

\* the deletions of line 29 resolve and the activation is complete; a
\* handler that holds a deleted cache keeps an object the storage has lost
ActivateDeleted ==
  \E v \in Versions :
    /\ workerState[v].state = "deleting"
    /\ cacheStorage' = CachesDelete(cacheStorage, workerState[v].doomed)
    /\ inFlight' = [s \in Slots |->
                      IF /\ inFlight[s].stage = "put"
                         /\ inFlight[s].worker \in workerState[v].doomed
                      THEN [inFlight[s] EXCEPT !.detached = TRUE]
                      ELSE inFlight[s]]
    /\ workerState' = [workerState EXCEPT
                         ![v] = [state |-> "activated", doomed |-> {}]]
    /\ UNCHANGED answered
    /\ RestSW

\* a request of a controlled page reaches the active worker, lines 39-41
FetchEvent ==
  \E v \in Versions, request \in FetchedRequests, s \in Slots :
    /\ workerState[v].state = "activated"
    /\ inFlight[s].stage = "free"
    /\ \A t \in Slots : inFlight[t].stage = "free" => s <= t
    /\ inFlight' = [inFlight EXCEPT
                      ![s] = [FreeSlot EXCEPT !.stage = "match",
                                              !.worker = v,
                                              !.request = request]]
    /\ UNCHANGED <<cacheStorage, workerState, answered>>
    /\ RestSW

\* caches.match resolves, lines 41-54: the network is asked, and a copy
\* that was found is the response
MatchResolves ==
  \E s \in Slots :
    /\ inFlight[s].stage = "match"
    /\ LET response == CachesMatch(cacheStorage, inFlight[s].request)
       IN  /\ inFlight' = [inFlight EXCEPT ![s].stage = "network",
                                           ![s].cached = response]
           /\ answered' =
                IF response # NoResponse
                THEN [slot |-> s, request |-> inFlight[s].request,
                      copy |-> response, network |-> NoResponse,
                      response |-> response, live |-> TRUE]
                ELSE answered
    /\ UNCHANGED <<cacheStorage, workerState>>
    /\ RestSW

\* fetch of line 43 settles, lines 44-52: without a copy its outcome is the
\* response; a response of status 200 is on its way to the cache
NetworkSettles ==
  \E s \in Slots, networkResponse \in NetworkOutcomes :
    /\ inFlight[s].stage = "network"
    /\ inFlight' =
         [inFlight EXCEPT
            ![s] = IF networkResponse.status = 200
                   THEN [@ EXCEPT !.stage = "open",
                                  !.network = networkResponse]
                   ELSE FreeSlot]
    /\ answered' =
         IF inFlight[s].cached = NoResponse
         THEN [slot |-> s, request |-> inFlight[s].request,
               copy |-> NoResponse, network |-> networkResponse,
               response |-> networkResponse, live |-> FALSE]
         ELSE IF answered.slot = s /\ answered.live
              THEN [answered EXCEPT !.network = networkResponse,
                                    !.live = FALSE]
              ELSE answered
    /\ UNCHANGED <<cacheStorage, workerState>>
    /\ RestSW

\* caches.open(CACHE_VERSION) of line 47 resolves
OpenResolves ==
  \E s \in Slots :
    /\ inFlight[s].stage = "open"
    /\ cacheStorage' = CachesOpen(cacheStorage, inFlight[s].worker)
    /\ inFlight' = [inFlight EXCEPT ![s].stage = "put"]
    /\ UNCHANGED <<workerState, answered>>
    /\ RestSW

\* cache.put of line 48 resolves
PutResolves ==
  \E s \in Slots :
    /\ inFlight[s].stage = "put"
    /\ cacheStorage' =
         IF inFlight[s].detached THEN cacheStorage
         ELSE CachePut(cacheStorage, inFlight[s].worker, inFlight[s].request,
                       inFlight[s].network)
    /\ inFlight' = [inFlight EXCEPT ![s] = FreeSlot]
    /\ UNCHANGED <<workerState, answered>>
    /\ RestSW

NextSW ==
  \/ Register
  \/ InstallOpened
  \/ AddAllSettles
  \/ ActivateKeys
  \/ ActivateDeleted
  \/ FetchEvent
  \/ MatchResolves
  \/ NetworkSettles
  \/ OpenResolves
  \/ PutResolves

SpecSW == InitSW /\ [][NextSW]_vars

\* the copies of a request that the caches hold
Copies(storage, request) ==
  {storage[i].entries[request] : i \in 1..Len(storage)} \ {NoResponse}

\* C16: a fetch is answered with a cached copy of the request when one
\* exists, whatever the network does, and with the network's outcome only
\* when none exists; a network response of status 200 is stored under the
\* request in the cache of the worker's CACHE_VERSION, so that a later
\* match of the request finds a copy.
C16_FetchOrServe ==
  /\ [](answered.slot # 0 =>
          answered.response = IF answered.copy # NoResponse
                              THEN answered.copy ELSE answered.network)
  /\ [][\A s \in Slots :
          /\ (inFlight[s].stage = "match" /\ inFlight'[s].stage # "match") =>
               IF Copies(cacheStorage, inFlight[s].request) = {}
               THEN inFlight'[s].cached = NoResponse /\ answered' = answered
               ELSE /\ answered'.slot = s
                    /\ answered'.response
                         \in Copies(cacheStorage, inFlight[s].request)
          /\ (inFlight[s].stage = "network" /\ inFlight'[s].stage # "network") =>
               /\ inFlight[s].cached = NoResponse =>
                    /\ answered'.slot = s
                    /\ answered'.copy = NoResponse
                    /\ answered'.response \in NetworkOutcomes
                    /\ answered'.response.status = 200 =>
                         /\ inFlight'[s].stage = "open"
                         /\ inFlight'[s].network = answered'.response
               /\ inFlight[s].cached # NoResponse =>
                    answered'.response = answered.response
               /\ inFlight'[s].stage = "open" =>
                    inFlight'[s].network.status = 200
          /\ (inFlight[s].stage = "put" /\ inFlight'[s].stage # "put") =>
               /\ \E i \in 1..Len(cacheStorage') :
                    /\ cacheStorage'[i].name = inFlight[s].worker
                    /\ cacheStorage'[i].entries[inFlight[s].request]
                         = inFlight[s].network
               /\ CachesMatch(cacheStorage', inFlight[s].request) # NoResponse
     ]_vars

\* C17: once the worker of the new CACHE_VERSION has completed its
\* activation, no cache whose name starts with guitar-tuner- exists besides
\* the one named CACHE_VERSION, whatever the handlers of the worker before
\* it still have in flight.
C17_OnlyCurrentVersionCached ==
  workerState[CACHE_VERSION].state = "activated" =>
    \A i \in 1..Len(cacheStorage) :
      cacheStorage[i].name[1] = GuitarTuner =>
        cacheStorage[i].name = CACHE_VERSION

====
